---- MODULE Spec2Model ----
(***************************************************************************)
(* A model of the mdoc crate (src/src/lib.rs): the Mdoc document, its      *)
(* append operations, Line::render and the escaping helpers.               *)
(*                                                                         *)
(* Text is modelled as a sequence of one-character strings, so that the    *)
(* escaping and rendering code can be followed character by character.     *)
(***************************************************************************)
EXTENDS Integers, Sequences, FiniteSets, TLC

VARIABLES
    doc,         \* the Mdoc value: front-matter fields and `lines`
    ctor,        \* how doc was built: "new" (Mdoc::new) or "default"
    lastOp,      \* the last method called on doc
    out,         \* what the last rendering call wrote to its sink / returned
    result,      \* outcome of the last rendering call: none, Ok, Err, Panic
    attempts,    \* write! calls the last rendering call made on its sink
    sinkFailAt,  \* the write! call at which the sink failed (0: it never did)
    nops,        \* number of append operations applied so far
    call,        \* the arguments of the last append or merge applied to doc
    s,           \* the argument of escape_leading_cc
    escaped,     \* escape_leading_cc(s), once computed
    twice        \* escape_leading_cc(escape_leading_cc(s)), once computed

vars == <<doc, ctor, lastOp, out, result, attempts, sinkFailAt, nops, call,
          s, escaped, twice>>

docVars == <<doc, ctor, lastOp, out, result, attempts, sinkFailAt, nops, call>>
escVars == <<s, escaped, twice>>

\* Option<T>: None is the empty sequence, Some(x) the one-element sequence.
\* The history variables escaped and twice are None until computed.
None == <<>>
Some(x) == <<x>>

NL == "\n"
BS == "\\"

(***************************************************************************)
(* Bounds of the model.                                                    *)
(***************************************************************************)
\* longest text handed to escape_leading_cc
MaxTextLen == 5
\* append operations applied to one document
MaxOps == 2
\* inline items of the single text line rendered under SpecLine
MaxInlines == 2
\* arguments of the single control line rendered under SpecLine
MaxArgs == 2
\* documents merged into one by a single extend or collect under SpecMerge
MaxIter == 2
\* lines handed to one add_section under SpecAppend
MaxSectionLines == 2

(***************************************************************************)
(* Generic sequence helpers.                                               *)
(***************************************************************************)
RECURSIVE Concat(_)
\* The concatenation of a sequence of sequences, in order.
Concat(ss) ==
    IF Len(ss) = 0 THEN <<>> ELSE Head(ss) \o Concat(Tail(ss))

IsPrefix(p, t) ==
    /\ Len(p) <= Len(t)
    /\ SubSeq(t, 1, Len(p)) = p

\* All sequences over S of length at most n.
SeqsUpTo(S, n) == UNION {[1..k -> S] : k \in 0..n}

(***************************************************************************)
(* Escaping utilities                                                      *)
(***************************************************************************)
RECURSIVE Replace(_, _, _)
\* str::replace(from, to): every non-overlapping match of the non-empty
\* pattern `from`, found left to right, is replaced by `to`.
Replace(t, from, to) ==
    IF Len(t) < Len(from) THEN t
    ELSE IF SubSeq(t, 1, Len(from)) = from
         THEN to \o Replace(SubSeq(t, Len(from) + 1, Len(t)), from, to)
         ELSE <<Head(t)>> \o Replace(Tail(t), from, to)

starts_with_period(line) ==
    Len(line) > 0 /\ line[1] = "."

\* A slip that puts the escape after the period instead of before it.
escape_leading_cc_after(t) ==
    Replace(Replace(t, <<NL, ".">>, <<NL, ".", BS, "&">>),
            <<NL, "'">>, <<NL, "'", BS, "&">>)

\* A slip that forgets the apostrophe.
escape_leading_cc_period_only(t) ==
    Replace(t, <<NL, ".">>, <<NL, BS, "&", ".">>)

escape_leading_cc(t) ==
    Replace(Replace(t, <<NL, ".">>, <<NL, BS, "&", ".">>),
            <<NL, "'">>, <<NL, BS, "&", "'">>)

(***************************************************************************)
(* Inline and Line values                                                  *)
(***************************************************************************)
roman(input)  == [style |-> "Roman",  text |-> input]
bold(input)   == [style |-> "Bold",   text |-> input]
italic(input) == [style |-> "Italic", text |-> input]
line_break    == [style |-> "LineBreak", text |-> <<>>]

Line_control(name, args) ==
    [kind |-> "Control", name |-> name, args |-> args, inlines |-> <<>>]

Line_text(parts) ==
    [kind |-> "Text", name |-> <<>>, args |-> <<>>, inlines |-> parts]

(***************************************************************************)
(* Line::render, as the sequence of write!/writeln! calls it makes on the  *)
(* sink.  Each call is a record: the characters it writes, and whether its *)
(* io::Result is unwrapped (a failure panics) or propagated with `?`.      *)
(***************************************************************************)
Write(data)       == [data |-> data, unwrap |-> FALSE]
WriteUnwrap(data) == [data |-> data, unwrap |-> TRUE]

\* The writes of one inline item of a text line.
InlineWrites(inline, at_line_start) ==
    IF inline.style = "LineBreak"
    THEN IF at_line_start
         THEN <<Write(<<".", "b", "r", NL>>)>>
         ELSE <<Write(<<NL, ".", "b", "r", NL>>)>>
    ELSE LET text == escape_leading_cc(inline.text) IN
         IF inline.style = "Bold"
         THEN <<Write(<<BS, "n", ".", "S", "y", " ">> \o text \o <<BS, "n">>)>>
         ELSE IF inline.style = "Italic"
         THEN <<Write(<<BS, "n", ".", "E", "m", " ">> \o text \o <<BS, "n">>)>>
         ELSE (IF at_line_start /\ starts_with_period(text)
               THEN <<WriteUnwrap(<<BS, "&">>)>>
               ELSE <<>>)
              \o <<Write(text)>>

RECURSIVE InlineLoop(_, _, _)
\* The loop over the inline items: at_line_start is true on entry and is
\* set to false after every item, a LineBreak included.
InlineLoop(inlines, i, at_line_start) ==
    IF i > Len(inlines) THEN <<>>
    ELSE InlineWrites(inlines[i], at_line_start)
         \o InlineLoop(inlines, i + 1, FALSE)

Line_render(line) ==
    (IF line.kind = "Control"
     THEN <<Write(<<".">> \o line.name)>>
          \o [i \in 1..Len(line.args) |-> Write(<<" ">> \o line.args[i])]
     ELSE InlineLoop(line.inlines, 1, TRUE))
    \o <<Write(<<NL>>)>>

\* The characters a sequence of writes puts into a sink that accepts them.
Data(ops) == Concat([i \in 1..Len(ops) |-> ops[i].data])

\* The writes of rendering every line in sequence order (the loop of
\* to_writer and of to_mdoc).
DocWrites(lines) == Concat([i \in 1..Len(lines) |-> Line_render(lines[i])])

\* The writes run against a sink that fails the failAt-th write! call made
\* on it (0: the sink never fails).  A failed call writes nothing; `?`
\* returns the error at once, unwrap() panics at once.
SinkRun(ops, failAt) ==
    IF failAt = 0 \/ failAt > Len(ops)
    THEN [result |-> "Ok", out |-> Data(ops), attempts |-> Len(ops)]
    ELSE [result   |-> IF ops[failAt].unwrap THEN "Panic" ELSE "Err",
          out      |-> Data(SubSeq(ops, 1, failAt - 1)),
          attempts |-> failAt]

(***************************************************************************)
(* The Mdoc document.  The eleven private Vec<Line> fields that no method  *)
(* reads or writes (synopsis .. authors) stay empty and are left out.      *)
(***************************************************************************)
DocumentDate(month, day, year) == [month |-> month, day |-> day, year |-> year]
DocumentTitle(title, section, arch) ==
    [title |-> title, section |-> section, arch |-> arch]
OperatingSystem(system, version) == [system |-> system, version |-> version]

\* #[derive(Default)]: no date, empty strings, no lines.
Mdoc_default ==
    [date        |-> None,
     title       |-> DocumentTitle(<<>>, <<>>, None),
     os          |-> None,
     name        |-> <<>>,
     description |-> <<>>,
     lines       |-> <<>>]

\* A slip that pushes the description line before the name line.
Mdoc_new_swapped(date, title, name, description, os) ==
    [date        |-> date,
     title       |-> title,
     os          |-> os,
     name        |-> name,
     description |-> description,
     lines       |->
        << Line_control(<<"D", "d">>,
                IF date # None
                THEN <<date[1].month, date[1].day, date[1].year>>
                ELSE << <<"$", "M", "d", "o", "c", "d", "a", "t", "e", "$">> >>),
           Line_control(<<"D", "t">>,
                IF title.arch # None
                THEN <<title.title, title.section, title.arch[1]>>
                ELSE <<title.title, title.section>>),
           Line_control(<<"O", "s">>, <<>>),
           Line_control(<<"S", "h">>, << <<"N", "A", "M", "E">> >>),
           Line_control(<<"N", "d">>, <<description>>),
           Line_control(<<"N", "m">>, <<name>>) >>]

Mdoc_new(date, title, name, description, os) ==
    [date        |-> date,
     title       |-> title,
     os          |-> os,
     name        |-> name,
     description |-> description,
     lines       |->
        << Line_control(<<"D", "d">>,
                IF date # None
                THEN <<date[1].month, date[1].day, date[1].year>>
                ELSE << <<"$", "M", "d", "o", "c", "d", "a", "t", "e", "$">> >>),
           Line_control(<<"D", "t">>,
                IF title.arch # None
                THEN <<title.title, title.section, title.arch[1]>>
                ELSE <<title.title, title.section>>),
           Line_control(<<"O", "s">>, <<>>),
           Line_control(<<"S", "h">>, << <<"N", "A", "M", "E">> >>),
           Line_control(<<"N", "m">>, <<name>>),
           Line_control(<<"N", "d">>, <<description>>) >>]

\* impl From<I: Into<Inline>> for Mdoc: a default document with one text line.
Mdoc_from(other) ==
    [Mdoc_default EXCEPT !.lines = <<Line_text(<<other>>)>>]

\* char::to_uppercase on the letters the model uses; any other character
\* of the model's alphabet has no upper-case form and maps to itself.
ToUpperChar(c) ==
    CASE c = "a" -> "A"
      [] c = "b" -> "B"
      [] c = "s" -> "S"
      [] OTHER   -> c

to_uppercase(t) == [i \in 1..Len(t) |-> ToUpperChar(t[i])]

\* The arguments a call was made with; a field the call does not take is
\* empty.
NoArg ==
    [name |-> <<>>, args |-> <<>>, inlines |-> <<>>, title |-> <<>>,
     lines |-> <<>>, iter |-> <<>>]

\* An append leaves no rendering result behind: the values of the last
\* rendering call are cleared.
NoRendering ==
    /\ out' = <<>>
    /\ result' = "none"
    /\ attempts' = 0
    /\ sinkFailAt' = 0

\* A slip that pushes the section's lines before its heading.
Mdoc_add_section_heading_last(title, lines) ==
    /\ nops < MaxOps
    /\ doc' = [doc EXCEPT !.lines =
                  Append(@ \o lines,
                         Line_control(<<"S", "h">>, <<to_uppercase(title)>>))]
    /\ lastOp' = "add_section"
    /\ call' = [NoArg EXCEPT !.title = title, !.lines = lines]
    /\ nops' = nops + 1
    /\ NoRendering
    /\ UNCHANGED <<ctor, s, escaped, twice>>

Mdoc_add_section(title, lines) ==
    /\ nops < MaxOps
    /\ doc' = [doc EXCEPT !.lines =
                  Append(@, Line_control(<<"S", "h">>, <<to_uppercase(title)>>))
                  \o lines]
    /\ lastOp' = "add_section"
    /\ call' = [NoArg EXCEPT !.title = title, !.lines = lines]
    /\ nops' = nops + 1
    /\ NoRendering
    /\ UNCHANGED <<ctor, s, escaped, twice>>

Mdoc_control(name, args) ==
    /\ nops < MaxOps
    /\ doc' = [doc EXCEPT !.lines = Append(@, Line_control(name, args))]
    /\ lastOp' = "control"
    /\ call' = [NoArg EXCEPT !.name = name, !.args = args]
    /\ nops' = nops + 1
    /\ NoRendering
    /\ UNCHANGED <<ctor, s, escaped, twice>>

Mdoc_text(inlines) ==
    /\ nops < MaxOps
    /\ doc' = [doc EXCEPT !.lines = Append(@, Line_text(inlines))]
    /\ lastOp' = "text"
    /\ call' = [NoArg EXCEPT !.inlines = inlines]
    /\ nops' = nops + 1
    /\ NoRendering
    /\ UNCHANGED <<ctor, s, escaped, twice>>

\* The lines of a document without its mandatory header, if it has one.
WithoutHeader(lines) ==
    IF Len(lines) >= 6 /\ lines[1].name = <<"D", "d">>
    THEN SubSeq(lines, 7, Len(lines))
    ELSE lines

\* A slip that strips the header of every document merged in.
Mdoc_extend_stripping(iter) ==
    /\ nops < MaxOps
    /\ doc' = [doc EXCEPT !.lines =
                  @ \o Concat([i \in 1..Len(iter) |->
                                  WithoutHeader(iter[i].lines)])]
    /\ lastOp' = "extend"
    /\ call' = [NoArg EXCEPT !.iter = iter]
    /\ nops' = nops + 1
    /\ NoRendering
    /\ UNCHANGED <<ctor, s, escaped, twice>>

\* impl FromIterator: a default document that takes the lines of every
\* document of iter, in iteration order.  The documents are moved in: the
\* collected document replaces doc.
Mdoc_from_iter(iter) ==
    /\ nops < MaxOps
    /\ doc' = [Mdoc_default EXCEPT !.lines =
                  @ \o Concat([i \in 1..Len(iter) |-> iter[i].lines])]
    /\ ctor' = "from_iter"
    /\ lastOp' = "from_iter"
    /\ call' = [NoArg EXCEPT !.iter = iter]
    /\ nops' = nops + 1
    /\ NoRendering
    /\ UNCHANGED <<s, escaped, twice>>

\* impl Extend: the lines of every document of iter, in iteration order.
Mdoc_extend(iter) ==
    /\ nops < MaxOps
    /\ doc' = [doc EXCEPT !.lines =
                  @ \o Concat([i \in 1..Len(iter) |-> iter[i].lines])]
    /\ lastOp' = "extend"
    /\ call' = [NoArg EXCEPT !.iter = iter]
    /\ nops' = nops + 1
    /\ NoRendering
    /\ UNCHANGED <<ctor, s, escaped, twice>>

\* A slip that drains the line sequence while rendering it.
Mdoc_render_draining ==
    /\ LET r == SinkRun(DocWrites(doc.lines), 0) IN
         /\ out' = r.out
         /\ result' = r.result
         /\ attempts' = r.attempts
    /\ doc' = [doc EXCEPT !.lines = <<>>]
    /\ sinkFailAt' = 0
    /\ lastOp' = "render"
    /\ UNCHANGED <<ctor, nops, call, s, escaped, twice>>

\* render(&self): to_writer into a Vec, which accepts every write.
Mdoc_render ==
    /\ LET r == SinkRun(DocWrites(doc.lines), 0) IN
         /\ out' = r.out
         /\ result' = r.result
         /\ attempts' = r.attempts
    /\ sinkFailAt' = 0
    /\ lastOp' = "render"
    /\ UNCHANGED <<doc, ctor, nops, call, s, escaped, twice>>

\* to_writer(&self, w): the sink w fails its failAt-th write (0: never).
Mdoc_to_writer(failAt) ==
    /\ LET r == SinkRun(DocWrites(doc.lines), failAt) IN
         /\ out' = r.out
         /\ result' = r.result
         /\ attempts' = r.attempts
    /\ sinkFailAt' = failAt
    /\ lastOp' = "to_writer"
    /\ UNCHANGED <<doc, ctor, nops, call, s, escaped, twice>>

\* to_mdoc(&self): every line rendered into a Vec, which accepts every write.
Mdoc_to_mdoc ==
    /\ LET r == SinkRun(DocWrites(doc.lines), 0) IN
         /\ out' = r.out
         /\ result' = r.result
         /\ attempts' = r.attempts
    /\ sinkFailAt' = 0
    /\ lastOp' = "to_mdoc"
    /\ UNCHANGED <<doc, ctor, nops, call, s, escaped, twice>>

(***************************************************************************)
(* escape_leading_cc applied once, and again to its own result.            *)
(***************************************************************************)
Escape ==
    /\ escaped = None
    /\ escaped' = Some(escape_leading_cc(s))
    /\ UNCHANGED <<s, twice>>
    /\ UNCHANGED docVars

EscapeAgain ==
    /\ escaped # None
    /\ twice = None
    /\ twice' = Some(escape_leading_cc(escaped[1]))
    /\ UNCHANGED <<s, escaped>>
    /\ UNCHANGED docVars

(***************************************************************************)
(* Inputs                                                                  *)
(***************************************************************************)
\* The input of test_escapes_leading_control_chars: "foo\n.bar\n'yo".
TestEscapeInput ==
    <<"f", "o", "o", NL, ".", "b", "a", "r", NL, "'", "y", "o">>

EscChars == {"a", ".", "'", NL, BS}
EscInputs == SeqsUpTo(EscChars, MaxTextLen) \cup {TestEscapeInput}

\* Constructor arguments: date, arch and os present or absent, one-word and
\* several-word names and descriptions.
NewInputs ==
    { [date |-> None, title |-> DocumentTitle(<<"T">>, <<"1">>, None),
       name |-> <<"n">>, description |-> <<"d", " ", "e">>, os |-> None],
      [date |-> None, title |-> DocumentTitle(<<"T">>, <<"1">>, Some(<<"x">>)),
       name |-> <<"n", " ", "m">>, description |-> <<"d">>,
       os |-> Some(OperatingSystem(<<"B">>, None))],
      [date |-> Some(DocumentDate(<<"J">>, <<"1">>, <<"2", "4">>)),
       title |-> DocumentTitle(<<"T">>, <<"1">>, None),
       name |-> <<"n", " ", "m">>, description |-> <<>>,
       os |-> Some(OperatingSystem(<<"B">>, Some(<<"7">>)))],
      [date |-> Some(DocumentDate(<<"J">>, <<"1">>, <<"2", "4">>)),
       title |-> DocumentTitle(<<"T", "t">>, <<"8">>, Some(<<"x">>)),
       name |-> <<"n">>, description |-> <<"d", " ", "e">>, os |-> None] }

\* Arguments of the append operations of the document machine.
ControlInputs ==
    { [name |-> <<"N", "m">>, args |-> << <<"a">>, <<"b", " ", "c">> >>] }
TextInputs ==
    { <<roman(<<".", "a">>)>>,
      <<roman(<<"a">>), line_break, bold(<<"b">>)>> }
SectionInputs ==
    { [title |-> <<"a", "b">>, lines |-> <<Line_text(<<roman(<<"a">>)>>)>>] }
ExtendInputs ==
    { <<Mdoc_from(italic(<<"a">>)), Mdoc_from(roman(<<"b">>))>> }

\* The single line rendered under SpecLine: text lines over a set of
\* payloads that holds every escaping case, control lines, and the lines
\* of the crate's rendering tests.
LineTexts ==
    { <<>>, <<"a">>, <<".", "a">>, <<"'", "a">>, <<"a", "-", "b">>,
      <<"a", NL, ".", "b">>, <<"a", NL, "'", "b">>, <<"a", NL>> }
LineInlines ==
    {line_break}
    \cup {roman(x) : x \in LineTexts}
    \cup {italic(x) : x \in LineTexts}
    \cup {bold(x) : x \in LineTexts}
Foo == <<"f", "o", "o">>
FooBar == <<"f", "o", "o", "-", "b", "a", "r">>
TestTextInputs ==
    { <<roman(Foo)>>, <<roman(FooBar)>>, <<italic(Foo)>>, <<bold(Foo)>>,
      <<roman(<<".", "r", "o", "m", "a", "n">>)>>,
      <<roman(<<"f", "o", "o", NL, ".", "r", "o", "m", "a", "n">>)>>,
      <<roman(<<"r", "o", "m", "a", "n">>), line_break,
        roman(<<"m", "o", "r", "e">>)>> }
LineTextInputs == SeqsUpTo(LineInlines, MaxInlines) \cup TestTextInputs
LineArgs == {<<>>, <<"b", "a", "r">>, <<"b", " ", "c">>}
TestControlInput ==
    [name |-> Foo,
     args |-> << <<"b", "a", "r">>,
                 <<"f", "o", "o", " ", "a", "n", "d", " ", "b", "a", "r">> >>]
LineControlInputs ==
    {[name |-> n, args |-> a] :
        n \in {Foo, <<"P", "p">>}, a \in SeqsUpTo(LineArgs, MaxArgs)}
    \cup {TestControlInput}

(***************************************************************************)
(* Specifications                                                          *)
(***************************************************************************)
NoEscape ==
    /\ s = <<>>
    /\ escaped = None
    /\ twice = None

Fresh ==
    /\ out = <<>>
    /\ result = "none"
    /\ attempts = 0
    /\ sinkFailAt = 0
    /\ nops = 0
    /\ call = NoArg

\* The document machine: a document built by Mdoc::new or Mdoc::default,
\* appended to and rendered in any order.
Init ==
    /\ \/ /\ \E a \in NewInputs :
                doc = Mdoc_new(a.date, a.title, a.name, a.description, a.os)
          /\ ctor = "new"
          /\ lastOp = "new"
       \/ /\ doc = Mdoc_default
          /\ ctor = "default"
          /\ lastOp = "default"
    /\ Fresh
    /\ NoEscape

Next ==
    \/ \E c \in ControlInputs : Mdoc_control(c.name, c.args)
    \/ \E inlines \in TextInputs : Mdoc_text(inlines)
    \/ \E sec \in SectionInputs : Mdoc_add_section(sec.title, sec.lines)
    \/ \E iter \in ExtendInputs : Mdoc_extend(iter)
    \/ Mdoc_render
    \/ \E failAt \in 0..Len(DocWrites(doc.lines)) : Mdoc_to_writer(failAt)
    \/ Mdoc_to_mdoc

Spec == Init /\ [][Next]_vars

\* One line appended to a default document and rendered by to_mdoc, as in
\* the crate's rendering tests.
InitLine ==
    /\ doc = Mdoc_default
    /\ ctor = "default"
    /\ lastOp = "default"
    /\ Fresh
    /\ NoEscape

NextLine ==
    \/ /\ nops = 0
       /\ \E inlines \in LineTextInputs : Mdoc_text(inlines)
    \/ /\ nops = 0
       /\ \E c \in LineControlInputs : Mdoc_control(c.name, c.args)
    \/ Mdoc_to_mdoc

SpecLine == InitLine /\ [][NextLine]_vars

\* The documents merged into doc: with and without the mandatory header,
\* with and without lines of their own.
MergeDocs ==
    {Mdoc_new(a.date, a.title, a.name, a.description, a.os) : a \in NewInputs}
    \cup { Mdoc_default,
           Mdoc_from(italic(<<"a">>)),
           Mdoc_from(roman(<<".", "b">>)),
           [Mdoc_new(None, DocumentTitle(<<"U">>, <<"3">>, None), <<"m">>,
                     <<"d">>, None)
               EXCEPT !.lines = Append(@, Line_text(<<roman(<<"a">>)>>))] }

\* The non-empty sequences of at most n documents to merge.
MergeIters(n) == SeqsUpTo(MergeDocs, n) \ {<<>>}

Merged == lastOp \in {"extend", "from_iter"}

\* One merge: a document built by Mdoc::new or Mdoc::default, with or
\* without a text line of its own, is extended with other documents, or is
\* collected together with them into a new document.
NextMerge ==
    \/ /\ nops = 0
       /\ \E inlines \in TextInputs : Mdoc_text(inlines)
    \/ /\ ~Merged
       /\ \E iter \in MergeIters(MaxIter) : Mdoc_extend(iter)
    \/ /\ ~Merged
       /\ \E rest \in SeqsUpTo(MergeDocs, MaxIter - 1) :
              Mdoc_from_iter(<<doc>> \o rest)

SpecMerge == Init /\ [][NextMerge]_vars

\* Arguments of the append operations under SpecAppend: headings in lower,
\* upper and mixed case, and sections of no, one and several lines.
SectionTitles == {<<"a", "b">>, <<"S", "a", " ", "s">>}
SectionLines ==
    { Line_text(<<roman(<<"a">>)>>),
      Line_control(<<"P", "p">>, <<>>) }
AppendControlInputs ==
    ControlInputs \cup {[name |-> <<"P", "p">>, args |-> <<>>]}

\* The append operations alone, on a document built by Mdoc::new or
\* Mdoc::default.
NextAppend ==
    \/ \E c \in AppendControlInputs : Mdoc_control(c.name, c.args)
    \/ \E inlines \in TextInputs : Mdoc_text(inlines)
    \/ \E title \in SectionTitles,
          lines \in SeqsUpTo(SectionLines, MaxSectionLines) :
              Mdoc_add_section(title, lines)

SpecAppend == Init /\ [][NextAppend]_vars

\* escape_leading_cc over every text of the bounded alphabet.
InitEsc ==
    /\ s \in EscInputs
    /\ escaped = None
    /\ twice = None
    /\ doc = Mdoc_default
    /\ ctor = "default"
    /\ lastOp = "default"
    /\ Fresh

NextEsc == Escape \/ EscapeAgain

SpecEsc == InitEsc /\ [][NextEsc]_vars

(***************************************************************************)
(* Properties                                                              *)
(***************************************************************************)
Rendered == lastOp \in {"render", "to_mdoc", "to_writer"}

\* The text of the mandatory header, written out from the front-matter
\* fields of a document.
HeaderText(d) ==
    <<".", "D", "d">>
    \o (IF d.date = None
        THEN <<" ", "$", "M", "d", "o", "c", "d", "a", "t", "e", "$">>
        ELSE <<" ">> \o d.date[1].month \o <<" ">> \o d.date[1].day
             \o <<" ">> \o d.date[1].year)
    \o <<NL, ".", "D", "t", " ">> \o d.title.title
    \o <<" ">> \o d.title.section
    \o (IF d.title.arch = None THEN <<>> ELSE <<" ">> \o d.title.arch[1])
    \o <<NL, ".", "O", "s", NL, ".", "S", "h", " ", "N", "A", "M", "E", NL>>
    \o <<".", "N", "m", " ">> \o d.name
    \o <<NL, ".", "N", "d", " ">> \o d.description \o <<NL>>

\* C1: a document built by Mdoc::new and extended by any appends renders
\* to text that begins with the six header lines .Dd, .Dt, .Os, .Sh NAME,
\* .Nm <name>, .Nd <description>, written from the document's own fields
\* (the date tokens, or the $Mdocdate$ placeholder when no date was given).
C1_HeaderFirst ==
    (ctor = "new" /\ Rendered /\ result = "Ok")
        => /\ Len(doc.lines) >= 6
           /\ IsPrefix(HeaderText(doc), out)

C1_Witness ==
    /\ ctor = "new"
    /\ lastOp = "render"
    /\ result = "Ok"
    /\ nops = MaxOps
    /\ Len(doc.lines) > 6
    /\ doc.date # None
    /\ doc.title.arch # None
    /\ IsPrefix(HeaderText(doc), out)

\* The single line of a document that holds one line and was rendered by
\* to_mdoc.
OneLineRendered ==
    /\ lastOp = "to_mdoc"
    /\ result = "Ok"
    /\ Len(doc.lines) = 1

OneTextLineRendered == OneLineRendered /\ doc.lines[1].kind = "Text"

\* The positions of out at which a physical line starts with a period or
\* an apostrophe.
ControlLooking(t) ==
    {p \in 1..Len(t) : (p = 1 \/ t[p - 1] = NL) /\ t[p] \in {".", "'"}}

IsBrAt(t, p) ==
    /\ p + 3 <= Len(t)
    /\ SubSeq(t, p, p + 3) = <<".", "b", "r", NL>>

NumBreaks(inlines) ==
    Cardinality({i \in 1..Len(inlines) : inlines[i].style = "LineBreak"})

\* C2: the rendering of a text line has no physical line starting with a
\* period or an apostrophe other than the .br lines of its LineBreak items.
C2_NoControlLookingText ==
    OneTextLineRendered
        => /\ \A p \in ControlLooking(out) : IsBrAt(out, p)
           /\ Cardinality(ControlLooking(out)) = NumBreaks(doc.lines[1].inlines)

Quoted(arg) ==
    IF \E i \in 1..Len(arg) : arg[i] = " "
    THEN <<"\"">> \o arg \o <<"\"">>
    ELSE arg

\* C3: a control line renders as '.' and its name, then for each argument a
\* space and the argument, enclosed in double quotation marks when it
\* contains a space, then one newline.
C3_ControlQuoted ==
    (OneLineRendered /\ doc.lines[1].kind = "Control")
        => out = <<".">> \o doc.lines[1].name
                 \o Concat([i \in 1..Len(doc.lines[1].args) |->
                               <<" ">> \o Quoted(doc.lines[1].args[i])])
                 \o <<NL>>

\* C4: when the sink fails a write during to_writer, the call returns Err
\* (it does not panic), the failed write is the last one attempted and the
\* document is unchanged.
C4_SinkFailureIsErr ==
    [][(lastOp' = "to_writer" /\ sinkFailAt' # 0)
          => /\ result' = "Err"
             /\ attempts' = sinkFailAt'
             /\ doc' = doc]_vars

RECURSIVE EscapeHyphens(_)
EscapeHyphens(t) ==
    IF Len(t) = 0 THEN <<>>
    ELSE (IF Head(t) = "-" THEN <<BS, "-">> ELSE <<Head(t)>>)
         \o EscapeHyphens(Tail(t))

\* C5: a text line of one Roman item renders every hyphen of the item as
\* backslash-hyphen and every other character as the rest of the rendering
\* leaves it.
C5_HyphenEscaped ==
    (/\ OneTextLineRendered
     /\ Len(doc.lines[1].inlines) = 1
     /\ doc.lines[1].inlines[1].style = "Roman")
        => LET e == escape_leading_cc(doc.lines[1].inlines[1].text) IN
           out = (IF starts_with_period(e) THEN <<BS, "&">> ELSE <<>>)
                 \o EscapeHyphens(e) \o <<NL>>

FontEscape(inline) ==
    <<BS, "f", IF inline.style = "Italic" THEN "I" ELSE "B">>
    \o escape_leading_cc(inline.text)
    \o <<BS, "f", "R">>

\* C6: a text line of Italic and Bold items renders each item inline as
\* \fI or \fB, the item's text after the embedded-escape pass, and \fR,
\* with nothing added but the line's final newline.
C6_FontEscapes ==
    (/\ OneTextLineRendered
     /\ Len(doc.lines[1].inlines) >= 1
     /\ \A i \in 1..Len(doc.lines[1].inlines) :
            doc.lines[1].inlines[i].style \in {"Italic", "Bold"})
        => out = Concat([i \in 1..Len(doc.lines[1].inlines) |->
                            FontEscape(doc.lines[1].inlines[i])])
                 \o <<NL>>

\* Text that needs no escaping of any kind.
IsPlain(t) ==
    /\ Len(t) > 0
    /\ \A i \in 1..Len(t) : t[i] \notin {".", "'", "-", NL, BS}

RECURSIVE BreaksAtLineStart(_, _, _)
\* Plain Roman items and LineBreaks, where a LineBreak is at the start of
\* the line when nothing was emitted yet or a LineBreak came just before.
BreaksAtLineStart(inlines, i, at_start) ==
    IF i > Len(inlines) THEN <<>>
    ELSE IF inlines[i].style = "LineBreak"
         THEN (IF at_start THEN <<>> ELSE <<NL>>) \o <<".", "b", "r", NL>>
              \o BreaksAtLineStart(inlines, i + 1, TRUE)
         ELSE inlines[i].text \o BreaksAtLineStart(inlines, i + 1, FALSE)

\* C7: in a text line of plain Roman items and LineBreaks, a LineBreak at
\* the start of the line or right after another LineBreak renders as .br
\* and a newline with nothing before it; one that follows content renders
\* as a newline, .br and a newline.
C7_LineBreakAtStart ==
    (/\ OneTextLineRendered
     /\ \A i \in 1..Len(doc.lines[1].inlines) :
            \/ doc.lines[1].inlines[i].style = "LineBreak"
            \/ /\ doc.lines[1].inlines[i].style = "Roman"
               /\ IsPlain(doc.lines[1].inlines[i].text))
        => out = BreaksAtLineStart(doc.lines[1].inlines, 1, TRUE) \o <<NL>>

\* C8: escape_leading_cc applied to its own result returns that result.
C8_EscapeIdempotent ==
    twice # None => twice = escaped

C8_Witness ==
    /\ twice # None
    /\ twice = escaped
    /\ escaped[1] # s
    /\ \E i \in 1..(Len(s) - 1) : s[i] = NL /\ s[i + 1] = "'"

\* No newline of t is directly followed by a period or an apostrophe.
NoNewlineControl(t) ==
    \A i \in 1..(Len(t) - 1) : ~(t[i] = NL /\ t[i + 1] \in {".", "'"})

\* t with \& put between every newline and a period or apostrophe that
\* directly follows it.
InsertEscapes(t) ==
    Concat([i \in 1..Len(t) |->
               IF i > 1 /\ t[i - 1] = NL /\ t[i] \in {".", "'"}
               THEN <<BS, "&", t[i]>>
               ELSE <<t[i]>>])

\* C9: escape_leading_cc(t) is t with \& inserted directly after every
\* newline that is directly followed by a period or an apostrophe; the
\* result has no such newline left, and a text without one is unchanged.
C9_EscapeInserts ==
    escaped # None
        => /\ escaped[1] = InsertEscapes(s)
           /\ NoNewlineControl(escaped[1])
           /\ (NoNewlineControl(s) => escaped[1] = s)

C9_Witness ==
    /\ s = TestEscapeInput
    /\ escaped = Some(<<"f", "o", "o", NL, BS, "&", ".", "b", "a", "r",
                        NL, BS, "&", "'", "y", "o">>)

\* The concatenation, in sequence order, of the rendering of each line.
LinesText(lines) ==
    Concat([i \in 1..Len(lines) |-> Data(Line_render(lines[i]))])

\* C10: a rendering call (render, to_mdoc, to_writer) leaves the lines and
\* the front-matter fields as they were; on success its text is the
\* concatenation of the rendering of each line in order; and a render
\* right after a render returns the same text.
C10_RenderPure ==
    [][Rendered'
          => /\ doc' = doc
             /\ (result' = "Ok" => out' = LinesText(doc.lines))
             /\ ((lastOp = "render" /\ lastOp' = "render") => out' = out)]_vars

C10_Witness ==
    /\ lastOp = "render"
    /\ result = "Ok"
    /\ nops = MaxOps
    /\ Len(doc.lines) >= 2
    /\ out = LinesText(doc.lines)
    /\ ENABLED Mdoc_render

RECURSIVE LinesBefore(_, _)
\* The number of lines of the first k documents of iter.
LinesBefore(iter, k) ==
    IF k = 0 THEN 0 ELSE LinesBefore(iter, k - 1) + Len(iter[k].lines)

\* The lines of every document of iter are found in `lines` in their own
\* order, document after document, starting right after position base, and
\* `lines` ends with them.
HoldsInOrder(lines, base, iter) ==
    /\ Len(lines) = base + LinesBefore(iter, Len(iter))
    /\ \A k \in 1..Len(iter) : \A j \in 1..Len(iter[k].lines) :
           lines[base + LinesBefore(iter, k - 1) + j] = iter[k].lines[j]

\* C11: extending d1 with documents, or collecting d1 followed by documents,
\* yields d1's lines followed by the lines of each document in their
\* original order: the line count is the sum of the line counts, and the
\* header lines of the documents merged in are kept.
C11_MergeConcatenates ==
    [][/\ lastOp' = "extend"
          => /\ SubSeq(doc'.lines, 1, Len(doc.lines)) = doc.lines
             /\ HoldsInOrder(doc'.lines, Len(doc.lines), call'.iter)
       /\ lastOp' = "from_iter"
          => /\ call'.iter[1] = doc
             /\ HoldsInOrder(doc'.lines, 0, call'.iter)]_vars

C11_Witness ==
    /\ lastOp = "extend"
    /\ ctor = "new"
    /\ Len(call.iter) = 1
    /\ Len(call.iter[1].lines) = 7
    /\ Len(doc.lines) = 14
    /\ doc.lines[1].name = <<"D", "d">>
    /\ doc.lines[8].name = <<"D", "d">>
    /\ doc.lines[8] = call.iter[1].lines[1]

\* The lower-case letters of the model's alphabet with their upper-case
\* forms.
UpperPairs == {<<"a", "A">>, <<"b", "B">>, <<"s", "S">>}

\* u is t with every lower-case letter replaced by its upper-case form.
IsUpperOf(u, t) ==
    /\ Len(u) = Len(t)
    /\ \A i \in 1..Len(t) :
           IF \E p \in UpperPairs : p[1] = t[i]
           THEN <<t[i], u[i]>> \in UpperPairs
           ELSE u[i] = t[i]

\* The first n lines of the document are the n lines it held before.
KeepsLines == SubSeq(doc'.lines, 1, Len(doc.lines)) = doc.lines

\* C12: add_section(heading, lines) on a document of n lines keeps those n
\* lines in place, puts at n+1 a control line Sh whose single argument is
\* the heading in upper case, then the supplied lines in the order given,
\* n + 1 + |lines| lines in all; control and text each append exactly one
\* line, built from their arguments, and keep every line held before.
C12_AppendsOnly ==
    [][/\ lastOp' = "add_section"
          => /\ KeepsLines
             /\ Len(doc'.lines) = Len(doc.lines) + 1 + Len(call'.lines)
             /\ LET sh == doc'.lines[Len(doc.lines) + 1] IN
                  /\ sh.kind = "Control"
                  /\ sh.name = <<"S", "h">>
                  /\ Len(sh.args) = 1
                  /\ IsUpperOf(sh.args[1], call'.title)
             /\ \A j \in 1..Len(call'.lines) :
                    doc'.lines[Len(doc.lines) + 1 + j] = call'.lines[j]
       /\ lastOp' = "control"
          => /\ KeepsLines
             /\ Len(doc'.lines) = Len(doc.lines) + 1
             /\ doc'.lines[Len(doc'.lines)]
                    = Line_control(call'.name, call'.args)
       /\ lastOp' = "text"
          => /\ KeepsLines
             /\ Len(doc'.lines) = Len(doc.lines) + 1
             /\ doc'.lines[Len(doc'.lines)] = Line_text(call'.inlines)]_vars

C12_Witness ==
    /\ lastOp = "add_section"
    /\ ctor = "new"
    /\ nops = MaxOps
    /\ call.title = <<"S", "a", " ", "s">>
    /\ Len(call.lines) = 2
    /\ call.lines[1] # call.lines[2]
    /\ Len(doc.lines) >= 10
    /\ doc.lines[Len(doc.lines) - 2].args = << <<"S", "A", " ", "S">> >>
    /\ doc.lines[Len(doc.lines)] = call.lines[2]

\* No text payload of the line ends in a newline.
NoPayloadEndsInNewline(inlines) ==
    \A i \in 1..Len(inlines) :
        Len(inlines[i].text) = 0
        \/ inlines[i].text[Len(inlines[i].text)] # NL

\* C13: a text line whose payloads do not end in a newline renders to
\* output that ends in exactly one newline, never in two, whatever its
\* items are; an empty text line renders as one newline.
C13_OneFinalNewline ==
    (OneTextLineRendered /\ NoPayloadEndsInNewline(doc.lines[1].inlines))
        => /\ Len(out) >= 1
           /\ out[Len(out)] = NL
           /\ (Len(out) >= 2 => out[Len(out) - 1] # NL)
           /\ (Len(doc.lines[1].inlines) = 0 => out = <<NL>>)

====
